---- MODULE Spec2Model ----
(***************************************************************************)
(* Resume screening client (React).  The model follows the screening state *)
(* of ResumeProvider (jobDescription, uploadedFiles, processedResumes,     *)
(* rejectionEmails, processing, currentJobId), the router location, and    *)
(* the processing runs started by the effect of ProcessingPage.            *)
(*                                                                         *)
(* Strings whose characters matter (file names, job descriptions) are      *)
(* tuples of one-character strings; longer fixed texts are kept as one     *)
(* chunk of such a tuple.  Display-only fields of a candidate (summary,    *)
(* experience, skills) are not part of the records.                        *)
(***************************************************************************)
EXTENDS Integers, Sequences, FiniteSets, TLC

(***************************************************************************)
(* Bounds of the model.                                                    *)
(***************************************************************************)
\* longest uploadedFiles list, and longest FileList of one selection
MaxFiles == 2

(***************************************************************************)
(* Generic helpers.                                                        *)
(***************************************************************************)
\* all sequences over S of length at most n
SeqUpTo(S, n) == UNION {[1..k -> S] : k \in 0..n}

RECURSIVE SumScores(_)
SumScores(s) == IF s = <<>> THEN 0 ELSE Head(s).score + SumScores(Tail(s))

(***************************************************************************)
(* Strings.                                                                *)
(***************************************************************************)
\* String.prototype.toLowerCase, character by character
LowerChar(c) ==
    CASE c = "D" -> "d"
      [] c = "O" -> "o"
      [] c = "C" -> "c"
      [] c = "X" -> "x"
      [] c = "P" -> "p"
      [] c = "F" -> "f"
      [] OTHER -> c

toLowerCase(s) == [i \in 1..Len(s) |-> LowerChar(s[i])]

\* String.prototype.endsWith
endsWith(s, suffix) ==
    /\ Len(suffix) <= Len(s)
    /\ SubSeq(s, Len(s) - Len(suffix) + 1, Len(s)) = suffix

\* String.prototype.trim (the only white space of the model is " ")
RECURSIVE TrimLeft(_)
TrimLeft(s) == IF s # <<>> /\ Head(s) = " " THEN TrimLeft(Tail(s)) ELSE s

RECURSIVE TrimRight(_)
TrimRight(s) ==
    IF s # <<>> /\ s[Len(s)] = " " THEN TrimRight(SubSeq(s, 1, Len(s) - 1)) ELSE s

trim(s) == TrimRight(TrimLeft(s))

\* String.prototype.split(' '): the pieces between single spaces, empty ones kept
RECURSIVE SplitFrom(_, _)
SplitFrom(s, cur) ==
    IF s = <<>> THEN <<cur>>
    ELSE IF Head(s) = " " THEN <<cur>> \o SplitFrom(Tail(s), <<>>)
         ELSE SplitFrom(Tail(s), Append(cur, Head(s)))

split(s) == SplitFrom(s, <<>>)

\* Array.prototype.slice(0, n)
slice(a, n) == SubSeq(a, 1, IF Len(a) < n THEN Len(a) ELSE n)

\* Array.prototype.join(' ')
RECURSIVE join(_)
join(a) ==
    IF a = <<>> THEN <<>>
    ELSE IF Len(a) = 1 THEN a[1]
         ELSE a[1] \o <<" ">> \o join(Tail(a))

(***************************************************************************)
(* Files the user can offer.  name is File.name, type the declared MIME    *)
(* type (File.type), content what the bytes really are.                    *)
(***************************************************************************)
PdfFile  == [name |-> <<"a", ".", "p", "d", "f">>, type |-> "application/pdf", content |-> "pdf"]
FakeDoc  == [name |-> <<"b", ".", "D", "O", "C">>, type |-> "", content |-> "text"]
TextFile == [name |-> <<"c", ".", "t", "x", "t">>, type |-> "text/plain", content |-> "text"]
BarePdf  == [name |-> <<"d", ".", "p", "d", "f">>, type |-> "", content |-> "pdf"]

FileUniverse == {PdfFile, FakeDoc, TextFile, BarePdf}

\* what the user can hand to handleFileUpload (FileList | null)
Selections ==
    {[null |-> TRUE, items |-> <<>>]}
        \cup {[null |-> FALSE, items |-> l] : l \in SeqUpTo(FileUniverse, MaxFiles)}

\* job descriptions the user can type
JobDescriptions == {<<>>, <<" ">>, <<"Q", "A", " ", "l", "e", "a", "d">>}

(***************************************************************************)
(* State.                                                                  *)
(***************************************************************************)
VARIABLES
    route,            \* the router location
    history,          \* routes in the session history of the loaded page
    jobDescription,   \* ResumeProvider state
    uploadedFiles,
    processedResumes,
    rejectionEmails,
    processing,
    currentJobId,
    comparisonInput,  \* what the user last typed into the comparison-score input
    runs,             \* the processResumesWithAPI invocations of this page load
    cookies,          \* the js-cookie store: auth_token and refresh_token
    user,             \* AuthProvider state
    loading,
    logoutCall,       \* the promise of the logout the header has started
    authCalls,        \* initAuth's getCurrentUser call and the login or register call
    reloading         \* window.location.href was assigned; the new page has not loaded yet

vars == <<route, history, jobDescription, uploadedFiles, processedResumes, rejectionEmails,
          processing, currentJobId, comparisonInput, runs,
          cookies, user, loading, logoutCall, authCalls, reloading>>

auth == <<cookies, user, loading, logoutCall, authCalls, reloading>>

screening == <<jobDescription, uploadedFiles, processedResumes, rejectionEmails,
               processing, currentJobId>>

results == <<currentJobId, processedResumes, rejectionEmails>>

Routes == {"/dashboard", "/upload", "/processing", "/results"}

\* string | null of currentJobId: null is the empty tuple
Null == <<>>

\* the comparison-score input: empty, or the number typed
NoInput == <<>>
ComparisonValues == {50}

\* the processing runs of one page load the model follows
RunIds == {1}

IdleRun == [pc |-> "idle", jobDescription |-> <<>>, files |-> <<>>, attempts |-> 0]

DoneRun == [IdleRun EXCEPT !.pc = "done"]

InFlight(i) == runs[i].pc \in {"calling", "mockDelay"}

(***************************************************************************)
(* Cookies, the session, and the response interceptor of the axios         *)
(* instance.                                                               *)
(***************************************************************************)
\* a cookie that is not set (Cookies.get gives undefined)
NoCookie == <<>>

\* the cookies and the user of a signed-in session
SessionCookies == [auth_token |-> <<"jwt">>, refresh_token |-> <<"refresh">>]

SessionUser == <<"user">>

\* Cookies.remove('auth_token'); Cookies.remove('refresh_token')
RemoveTokens(c) == [c EXCEPT !.auth_token = NoCookie, !.refresh_token = NoCookie]

\* error statuses a call can end with; 0 stands for no response (timeout, network)
ErrorStatuses == {0, 401, 500}

\* variant: the cookies removed on every error
InterceptorCookiesAnyError(status, c) == RemoveTokens(c)

\* the cookies after the response interceptor has seen an error of this status
InterceptorCookies(status, c) == IF status = 401 THEN RemoveTokens(c) ELSE c

\* isAuthenticated()
isAuthenticated == cookies.auth_token # NoCookie

\* no call of the auth context in flight
NoCalls == [init |-> "done", sign |-> "idle"]

\* the calls in flight once AuthProvider has mounted: initAuth asks for the
\* current user when the auth_token cookie is there, and ends at once when not
MountedCalls(c) ==
    [init |-> IF c.auth_token # NoCookie THEN "pending" ELSE "done", sign |-> "idle"]

\* isLoggedIn of the auth context
isLoggedIn == user # Null

(***************************************************************************)
(* UploadPage.                                                             *)
(***************************************************************************)
\* the filter of handleFileUpload
Accepts(file) ==
    \/ file.type = "application/pdf"
    \/ endsWith(toLowerCase(file.name), <<".", "d", "o", "c">>)
    \/ endsWith(toLowerCase(file.name), <<".", "d", "o", "c", "x">>)

\* variant: the selection taken whole
newFilesUnfiltered(files) == files

newFiles(files) == SelectSeq(files, Accepts)

\* the disabled attribute of the Process button
ProcessDisabled == trim(jobDescription) = <<>> \/ Len(uploadedFiles) = 0

SetJobDescription(s) ==
    /\ route = "/upload"
    /\ s # jobDescription
    /\ jobDescription' = s
    /\ UNCHANGED <<route, history, uploadedFiles, processedResumes, rejectionEmails,
                   processing, currentJobId, comparisonInput, runs>>
    /\ UNCHANGED auth

handleFileUpload(files) ==
    /\ route = "/upload"
    /\ IF files.null
       THEN UNCHANGED uploadedFiles
       ELSE /\ Len(uploadedFiles) + Len(newFiles(files.items)) <= MaxFiles
            /\ uploadedFiles' = uploadedFiles \o newFiles(files.items)
    /\ UNCHANGED <<route, history, jobDescription, processedResumes, rejectionEmails,
                   processing, currentJobId, comparisonInput, runs>>
    /\ UNCHANGED auth

\* uploadedFiles.filter((_, i) => i !== index), indices from 0
\* variant: every file equal to the one at index goes with it
WithoutIndexByValue(files, index) ==
    IF index \in 0..(Len(files) - 1)
    THEN SelectSeq(files, LAMBDA f : f # files[index + 1])
    ELSE files

WithoutIndex(files, index) ==
    IF index \in 0..(Len(files) - 1)
    THEN SubSeq(files, 1, index) \o SubSeq(files, index + 2, Len(files))
    ELSE files

\* the remove button of the file at position index
removeFile(index) ==
    /\ route = "/upload"
    /\ index \in 0..(Len(uploadedFiles) - 1)
    /\ uploadedFiles' = WithoutIndex(uploadedFiles, index)
    /\ UNCHANGED <<route, history, jobDescription, processedResumes, rejectionEmails,
                   processing, currentJobId, comparisonInput, runs>>
    /\ UNCHANGED auth

\* onChange of the comparison-score input.  The context offers neither
\* comparisonScore nor setComparisonScore, so the input is uncontrolled and the
\* handler's call of the missing setter throws: no state of the provider takes
\* the value, and only what the user typed is left of it.
SetComparisonScore(v) ==
    /\ route = "/upload"
    /\ comparisonInput # <<v>>
    /\ comparisonInput' = <<v>>
    /\ UNCHANGED <<route, history, screening, runs>>
    /\ UNCHANGED auth

(***************************************************************************)
(* ProcessingPage: the local fallback (simulateMockProcessing).            *)
(***************************************************************************)
candidates == <<"Sarah Johnson", "Michael Chen", "Emily Rodriguez", "David Kumar",
                "Jessica Williams", "Alex Thompson", "Maria Garcia", "James Wilson",
                "Lauren Davis", "Robert Martinez">>

emails == <<"sarah.j@email.com", "michael.c@email.com", "emily.r@email.com",
            "david.k@email.com", "jessica.w@email.com", "alex.t@email.com",
            "maria.g@email.com", "james.w@email.com", "lauren.d@email.com",
            "robert.m@email.com">>

\* the threshold written into the classification
Threshold == 80

\* sampled values of Math.floor(Math.random() * 40), which lies in 0..39
MockDraws == {19, 20, 39}

\* variant: the random factor doubled
MockScoreWide(draw) == 2 * draw + 60

\* Math.floor(Math.random() * 40) + 60
MockScore(draw) == draw + 60

\* variant: the boundary excluded
StatusOfStrict(score) == IF score > Threshold THEN "shortlisted" ELSE "rejected"

\* score >= 80 ? 'shortlisted' : 'rejected'
StatusOf(score) == IF score >= Threshold THEN "shortlisted" ELSE "rejected"

\* variant: the index left out of the id
MockResumeSameId(file, index, draw) ==
    [id        |-> <<"resume_", 0>>,
     fileName  |-> file.name,
     candidate |-> candidates[(index % Len(candidates)) + 1],
     email     |-> emails[(index % Len(emails)) + 1],
     score     |-> draw + 60,
     status    |-> IF draw + 60 >= Threshold THEN "shortlisted" ELSE "rejected"]

\* one element of mockResumes; index counts from 0
MockResume(file, index, draw) ==
    [id        |-> <<"resume_", index>>,
     fileName  |-> file.name,
     candidate |-> candidates[(index % Len(candidates)) + 1],
     email     |-> emails[(index % Len(emails)) + 1],
     score     |-> MockScore(draw),
     status    |-> StatusOf(MockScore(draw))]

\* variant: no record is built
mockResumesNone(files, draws) == <<>>

mockResumes(files, draws) ==
    [i \in 1..Len(files) |-> MockResume(files[i], i - 1, draws[i])]

\* variant: the job description taken whole
PositionLabelWhole(jd) == jd

\* jobDescription.split(' ').slice(0, 3).join(' ')
PositionLabel(jd) == join(slice(split(jd), 3))

SubjectOf(jd) == <<"Thank you for your application - ">> \o PositionLabel(jd) \o <<" Position">>

ContentOf(name, jd) ==
    <<"Dear ", name, ", Thank you for taking the time to apply for the ">>
        \o PositionLabel(jd)
        \o <<" position at our company. [...] Best regards, HR Team">>

\* variant: the score written into the text
RejectionEmailForScored(resume, jd) ==
    [candidateId |-> resume.id,
     candidate   |-> resume.candidate,
     email       |-> resume.email,
     subject     |-> SubjectOf(jd),
     content     |-> ContentOf(resume.candidate, jd) \o <<resume.score>>]

RejectionEmailFor(resume, jd) ==
    [candidateId |-> resume.id,
     candidate   |-> resume.candidate,
     email       |-> resume.email,
     subject     |-> SubjectOf(jd),
     content     |-> ContentOf(resume.candidate, jd)]

IsRejected(resume) == resume.status = "rejected"

\* variant: the status filter left out
rejectedOfAll(resumes) == resumes

rejectedOf(resumes) == SelectSeq(resumes, IsRejected)

mockRejectionEmails(resumes, jd) ==
    [i \in 1..Len(rejectedOf(resumes)) |-> RejectionEmailFor(rejectedOf(resumes)[i], jd)]

\* `mock_job_${Date.now()}`: run i stands for the clock reading of its completion
MockJobId(i) == <<"mock_job_", i>>

(***************************************************************************)
(* The backend behind POST /resumes/process.  Its code is not part of the  *)
(* client sources; it is modelled from the specification (extractor,       *)
(* analyzer, classifier, drafter, aggregator).                             *)
(***************************************************************************)
\* what the AI service can answer for one resume: a fit score, or none
AiOutputs ==
    {[hasScore |-> FALSE, score |-> 0]}
        \cup {[hasScore |-> TRUE, score |-> n] : n \in {0, 80, 101}}

\* extraction succeeds on PDF, DOC and DOCX content only
Extractable(file) == file.content \in {"pdf", "doc", "docx"}

\* the per-file result: a score, or a failure of the kind named
Analyze(file, out) ==
    IF ~Extractable(file)
    THEN [ok |-> FALSE, kind |-> "UnsupportedFormat", score |-> 0]
    ELSE IF ~out.hasScore \/ out.score \notin 0..100
         THEN [ok |-> FALSE, kind |-> "MalformedAIResponse", score |-> 0]
         ELSE [ok |-> TRUE, kind |-> "", score |-> out.score]

\* positions (from 1) of the files that produced a candidate record
Succeeded(files, outs) ==
    SelectSeq([i \in 1..Len(files) |-> i], LAMBDA i : Analyze(files[i], outs[i]).ok)

\* the batch fails when no file can be processed
BatchFails(files, outs) == Succeeded(files, outs) = <<>>

BackendCandidate(file, i, out) ==
    [id        |-> <<"cand_", i>>,
     fileName  |-> file.name,
     candidate |-> "John Doe",
     email     |-> "john.doe@email.com",
     score     |-> Analyze(file, out).score,
     status    |-> IF Analyze(file, out).score >= 80 THEN "shortlisted" ELSE "rejected"]

BackendCandidates(files, outs) ==
    [k \in 1..Len(Succeeded(files, outs)) |->
        BackendCandidate(files[Succeeded(files, outs)[k]], Succeeded(files, outs)[k],
                         outs[Succeeded(files, outs)[k]])]

\* the 200 response of POST /resumes/process (ProcessResumeResponse)
BackendResponse(i, jd, files, outs) ==
    [jobId           |-> <<"job_", i>>,
     candidates      |-> BackendCandidates(files, outs),
     rejectionEmails |-> mockRejectionEmails(BackendCandidates(files, outs), jd)]

(***************************************************************************)
(* ProcessingPage: the effect and processResumesWithAPI.                   *)
(***************************************************************************)
CanStart == \E i \in DOMAIN runs : runs[i].pc = "idle"

NextRun ==
    CHOOSE i \in DOMAIN runs :
        runs[i].pc = "idle" /\ \A j \in DOMAIN runs : j < i => runs[j].pc # "idle"

\* the run record once the call of resumeAPI.processResumes has been issued
CallingRun(jd, files) ==
    [pc |-> "calling", jobDescription |-> jd, files |-> files, attempts |-> 1]

\* the effect at mount: setProcessing(true), then the call with the values
\* of jobDescription and uploadedFiles the effect closed over
StartRun ==
    /\ CanStart
    /\ processing' = TRUE
    /\ runs' = [runs EXCEPT ![NextRun] = CallingRun(jobDescription, uploadedFiles)]

\* variant: the fallback left out, the run stays where the call failed
AfterFailureStuck(run) == [run EXCEPT !.pc = "failed"]

\* variant: the call is issued again, up to three attempts
AfterFailureRetry(run) ==
    IF run.attempts < 3
    THEN [run EXCEPT !.attempts = @ + 1]
    ELSE [run EXCEPT !.pc = "mockDelay"]

\* the run record after the catch block has taken a failed call
AfterFailure(run) == [run EXCEPT !.pc = "mockDelay"]

\* the call resolves: the try block stores the response, then finally
ApiSuccess(i, outs) ==
    /\ runs[i].pc = "calling"
    /\ ~BatchFails(runs[i].files, outs)
    /\ LET response == BackendResponse(i, runs[i].jobDescription, runs[i].files, outs)
       IN /\ currentJobId' = response.jobId
          /\ processedResumes' = response.candidates
          /\ rejectionEmails' = response.rejectionEmails
    /\ route' = "/results"
    /\ history' = history \cup {"/results"}
    /\ processing' = FALSE
    /\ runs' = [runs EXCEPT ![i] = DoneRun]
    /\ UNCHANGED <<jobDescription, uploadedFiles, comparisonInput>>
    /\ UNCHANGED auth

\* the backend reports that no file could be processed (status 422): the
\* interceptor passes the error on and the call rejects
ApiBatchFailure(i, outs) ==
    /\ runs[i].pc = "calling"
    /\ BatchFails(runs[i].files, outs)
    /\ cookies' = InterceptorCookies(422, cookies)
    /\ runs' = [runs EXCEPT ![i] = AfterFailure(runs[i])]
    /\ UNCHANGED <<route, history, screening, comparisonInput>>
    /\ UNCHANGED <<user, loading, logoutCall, authCalls, reloading>>

\* a timeout, a transport error or an error status other than 401
ApiTransportFailure(i, status) ==
    /\ runs[i].pc = "calling"
    /\ status # 401
    /\ cookies' = InterceptorCookies(status, cookies)
    /\ runs' = [runs EXCEPT ![i] = AfterFailure(runs[i])]
    /\ UNCHANGED <<route, history, screening, comparisonInput>>
    /\ UNCHANGED <<user, loading, logoutCall, authCalls, reloading>>

\* status 401: the response interceptor removes the cookies, assigns
\* window.location.href and rejects; the rejection reaches the catch block
ApiUnauthorized(i) ==
    /\ runs[i].pc = "calling"
    /\ cookies' = InterceptorCookies(401, cookies)
    /\ reloading' = TRUE
    /\ runs' = [runs EXCEPT ![i] = AfterFailure(runs[i])]
    /\ UNCHANGED <<route, history, screening, comparisonInput, user, loading, logoutCall, authCalls>>

\* the timer of simulateMockProcessing fires: mock results, then finally
MockComplete(i, draws) ==
    /\ runs[i].pc = "mockDelay"
    /\ currentJobId' = MockJobId(i)
    /\ processedResumes' = mockResumes(runs[i].files, draws)
    /\ rejectionEmails' = mockRejectionEmails(mockResumes(runs[i].files, draws),
                                              runs[i].jobDescription)
    /\ route' = "/results"
    /\ history' = history \cup {"/results"}
    /\ processing' = FALSE
    /\ runs' = [runs EXCEPT ![i] = DoneRun]
    /\ UNCHANGED <<jobDescription, uploadedFiles, comparisonInput>>
    /\ UNCHANGED auth

\* the document of /signin has loaded: a new page, with the providers in
\* their initial state; the effect of AuthProvider has run initAuth
LoadSignin ==
    /\ reloading
    /\ reloading' = FALSE
    /\ route' = "/signin"
    /\ history' = {"/signin"}
    /\ jobDescription' = <<>>
    /\ uploadedFiles' = <<>>
    /\ processedResumes' = <<>>
    /\ rejectionEmails' = <<>>
    /\ processing' = FALSE
    /\ currentJobId' = Null
    /\ comparisonInput' = NoInput
    /\ runs' = [j \in DOMAIN runs |-> IdleRun]
    /\ user' = Null
    /\ loading' = isAuthenticated
    /\ logoutCall' = "idle"
    /\ authCalls' = MountedCalls(cookies)
    /\ UNCHANGED cookies

(***************************************************************************)
(* Navigation.                                                             *)
(***************************************************************************)
\* handleProcess behind the Process button; ProcessingPage mounts
handleProcess ==
    /\ route = "/upload"
    /\ ~ProcessDisabled
    /\ route' = "/processing"
    /\ history' = history \cup {"/processing"}
    /\ StartRun
    /\ UNCHANGED <<jobDescription, uploadedFiles, processedResumes, rejectionEmails,
                   currentJobId, comparisonInput>>
    /\ UNCHANGED auth

\* the browser's back and forward buttons: another entry of the session
\* history; the page is not loaded anew, and a mounting ProcessingPage runs
\* its effect
HistoryNavigate(r) ==
    /\ route \in Routes
    /\ r \in history \ {route}
    /\ route' = r
    /\ UNCHANGED history
    /\ IF r = "/processing"
       THEN StartRun
       ELSE UNCHANGED <<processing, runs>>
    /\ UNCHANGED <<jobDescription, uploadedFiles, processedResumes, rejectionEmails,
                   currentJobId, comparisonInput>>
    /\ UNCHANGED auth

\* "Start Screening Now" on the dashboard
LinkToUpload ==
    /\ route = "/dashboard"
    /\ route' = "/upload"
    /\ history' = history \cup {"/upload"}
    /\ UNCHANGED <<screening, comparisonInput, runs>>
    /\ UNCHANGED auth

\* "Back to Dashboard" of UploadPage and the logo link of Header
LinkToDashboard ==
    /\ route \in {"/upload", "/results"}
    /\ route' = "/dashboard"
    /\ history' = history \cup {"/dashboard"}
    /\ UNCHANGED <<screening, comparisonInput, runs>>
    /\ UNCHANGED auth

\* variant: the job id left in place
resetProcessKeepsJobId ==
    /\ jobDescription' = <<>>
    /\ uploadedFiles' = <<>>
    /\ processedResumes' = <<>>
    /\ rejectionEmails' = <<>>
    /\ processing' = FALSE
    /\ UNCHANGED currentJobId

\* variant: the upload list left in place
resetProcessKeepsFiles ==
    /\ jobDescription' = <<>>
    /\ UNCHANGED uploadedFiles
    /\ processedResumes' = <<>>
    /\ rejectionEmails' = <<>>
    /\ processing' = FALSE
    /\ currentJobId' = Null

\* resetProcess of the context: the six setters
resetProcess ==
    /\ jobDescription' = <<>>
    /\ uploadedFiles' = <<>>
    /\ processedResumes' = <<>>
    /\ rejectionEmails' = <<>>
    /\ processing' = FALSE
    /\ currentJobId' = Null

\* "New Screening" of ResultsPage: resetProcess, then the link to /dashboard
handleNewScreening ==
    /\ route = "/results"
    /\ resetProcess
    /\ route' = "/dashboard"
    /\ history' = history \cup {"/dashboard"}
    /\ UNCHANGED <<comparisonInput, runs>>
    /\ UNCHANGED auth

(***************************************************************************)
(* ResultsPage: the derived values of the view.                            *)
(***************************************************************************)
\* variant: the shortlist told by the score
IsShortlistedByScore(resume) == resume.score > Threshold

IsShortlisted(resume) == resume.status = "shortlisted"

shortlistedCandidates == SelectSeq(processedResumes, IsShortlisted)

rejectedCandidates == SelectSeq(processedResumes, IsRejected)

\* variant: Math.floor in place of Math.round
RoundDivFloor(num, den) == num \div den

\* Math.round(x) for x = num / den, num >= 0, den > 0: halves go up
RoundDiv(num, den) == (2 * num + den) \div (2 * den)

\* Math.round(processedResumes.reduce((sum, r) => sum + r.score, 0) / processedResumes.length)
\* where the list is not empty
AvgScore == RoundDiv(SumScores(processedResumes), Len(processedResumes))

\* the same expression over an empty list: 0 / 0 is NaN, and Math.round(NaN)
\* is NaN, which the page renders
AvgScoreIsNaN == Len(processedResumes) = 0

\* the per-file failures the caller can read: ProcessResumeResponse has no
\* field for them and the provider keeps none
reportedFailures == <<>>

(***************************************************************************)
(* Specification.                                                          *)
(***************************************************************************)
\* the page loaded at a protected route; ProcessingPage starts its run at mount
Init ==
    /\ route \in Routes
    /\ history = {route}
    /\ jobDescription = <<>>
    /\ uploadedFiles = <<>>
    /\ processedResumes = <<>>
    /\ rejectionEmails = <<>>
    /\ currentJobId = Null
    /\ comparisonInput = NoInput
    /\ processing = (route = "/processing")
    /\ runs = [i \in RunIds |->
                  IF i = 1 /\ route = "/processing"
                  THEN CallingRun(<<>>, <<>>) ELSE IdleRun]
    /\ cookies = SessionCookies
    /\ user = SessionUser
    /\ loading = FALSE
    /\ logoutCall = "idle"
    /\ authCalls = NoCalls
    /\ reloading = FALSE

Next ==
    \/ \E s \in JobDescriptions : SetJobDescription(s)
    \/ \E files \in Selections : handleFileUpload(files)
    \/ \E index \in 0..(MaxFiles - 1) : removeFile(index)
    \/ \E v \in ComparisonValues : SetComparisonScore(v)
    \/ handleProcess
    \/ \E r \in Routes : HistoryNavigate(r)
    \/ LinkToUpload
    \/ LinkToDashboard
    \/ handleNewScreening
    \/ \E i \in DOMAIN runs : \E outs \in [1..Len(runs[i].files) -> AiOutputs] : ApiSuccess(i, outs)
    \/ \E i \in DOMAIN runs : \E outs \in [1..Len(runs[i].files) -> AiOutputs] : ApiBatchFailure(i, outs)
    \/ \E i \in DOMAIN runs : \E status \in ErrorStatuses : ApiTransportFailure(i, status)
    \/ \E i \in DOMAIN runs : ApiUnauthorized(i)
    \/ \E i \in DOMAIN runs : \E draws \in [1..Len(runs[i].files) -> MockDraws] : MockComplete(i, draws)
    \/ LoadSignin

Spec == Init /\ [][Next]_vars

(***************************************************************************)
(* UploadPage on its own: the form and the links that lead to it and back. *)
(***************************************************************************)
InitUpload ==
    /\ route \in {"/dashboard", "/upload"}
    /\ history = {route}
    /\ jobDescription = <<>>
    /\ uploadedFiles = <<>>
    /\ processedResumes = <<>>
    /\ rejectionEmails = <<>>
    /\ currentJobId = Null
    /\ comparisonInput = NoInput
    /\ processing = FALSE
    /\ runs = [i \in RunIds |-> IdleRun]
    /\ cookies = SessionCookies
    /\ user = SessionUser
    /\ loading = FALSE
    /\ logoutCall = "idle"
    /\ authCalls = NoCalls
    /\ reloading = FALSE

NextUpload ==
    \/ \E s \in JobDescriptions : SetJobDescription(s)
    \/ \E files \in Selections : handleFileUpload(files)
    \/ \E index \in 0..(MaxFiles - 1) : removeFile(index)
    \/ \E v \in ComparisonValues : SetComparisonScore(v)
    \/ \E r \in {"/dashboard", "/upload"} : HistoryNavigate(r)
    \/ LinkToUpload
    \/ LinkToDashboard

SpecUpload == InitUpload /\ [][NextUpload]_vars

(***************************************************************************)
(* Overlapping runs: the upload page filled in, and room for the effect of *)
(* ProcessingPage to run twice in one page load.                           *)
(***************************************************************************)
OverlapRunIds == {1, 2}

InitOverlap ==
    /\ route = "/upload"
    /\ history = {"/upload"}
    /\ jobDescription \in JobDescriptions \ {<<>>, <<" ">>}
    /\ uploadedFiles \in {<<PdfFile>>, <<PdfFile, FakeDoc>>}
    /\ processedResumes = <<>>
    /\ rejectionEmails = <<>>
    /\ currentJobId = Null
    /\ comparisonInput = NoInput
    /\ processing = FALSE
    /\ runs = [i \in OverlapRunIds |-> IdleRun]
    /\ cookies = SessionCookies
    /\ user = SessionUser
    /\ loading = FALSE
    /\ logoutCall = "idle"
    /\ authCalls = NoCalls
    /\ reloading = FALSE

NextOverlap ==
    \/ handleProcess
    \/ \E r \in Routes : HistoryNavigate(r)
    \/ LinkToUpload
    \/ LinkToDashboard
    \/ handleNewScreening
    \/ \E i \in DOMAIN runs : \E outs \in [1..Len(runs[i].files) -> AiOutputs] : ApiSuccess(i, outs)
    \/ \E i \in DOMAIN runs : \E outs \in [1..Len(runs[i].files) -> AiOutputs] : ApiBatchFailure(i, outs)
    \/ \E i \in DOMAIN runs : \E status \in ErrorStatuses : ApiTransportFailure(i, status)
    \/ \E i \in DOMAIN runs : ApiUnauthorized(i)
    \/ \E i \in DOMAIN runs : \E draws \in [1..Len(runs[i].files) -> MockDraws] : MockComplete(i, draws)
    \/ LoadSignin

SpecOverlap == InitOverlap /\ [][NextOverlap]_vars

(***************************************************************************)
(* The local fallback by itself: two runs over the same inputs whose calls *)
(* have failed wait for their timers, with job descriptions of all shapes  *)
(* and draws on both sides of the threshold.                               *)
(***************************************************************************)
\* one word, two words, a leading space, a repeated space, four words,
\* three leading spaces
FallbackJobDescriptions ==
    {<<"Q", "A">>,
     <<"Q", "A", " ", "l", "e", "a", "d">>,
     <<" ", "Q", "A">>,
     <<"a", " ", " ", "b", " ", "c">>,
     <<"a", " ", "b", " ", "c", " ", "d">>,
     <<" ", " ", " ", "x">>}

\* sampled values of Math.floor(Math.random() * 40): two rejected scores, one not
FallbackDraws == {0, 19, 20}

InitFallback ==
    /\ route = "/processing"
    /\ history = {"/upload", "/processing"}
    /\ jobDescription \in FallbackJobDescriptions
    /\ uploadedFiles \in {<<PdfFile>>, <<PdfFile, FakeDoc>>}
    /\ processedResumes = <<>>
    /\ rejectionEmails = <<>>
    /\ currentJobId = Null
    /\ comparisonInput = NoInput
    /\ processing = TRUE
    /\ runs = [i \in OverlapRunIds |->
                  AfterFailure(CallingRun(jobDescription, uploadedFiles))]
    /\ cookies = SessionCookies
    /\ user = SessionUser
    /\ loading = FALSE
    /\ logoutCall = "idle"
    /\ authCalls = NoCalls
    /\ reloading = FALSE

NextFallback ==
    \E i \in DOMAIN runs : \E draws \in [1..Len(runs[i].files) -> FallbackDraws] : MockComplete(i, draws)

SpecFallback == InitFallback /\ [][NextFallback]_vars

(***************************************************************************)
(* Header and AuthProvider: logout.                                        *)
(***************************************************************************)
\* variant: the refresh token left behind
LogoutCookiesKeepRefresh(c) == [c EXCEPT !.auth_token = NoCookie]

\* the finally block of authAPI.logout
LogoutCookies(c) == RemoveTokens(c)

\* the Logout button of Header (Dashboard, UploadPage and ResultsPage carry
\* the header): logout of the context sets loading, authAPI.logout posts
\* /auth/logout
handleLogout ==
    /\ route \in {"/dashboard", "/upload", "/results"}
    /\ logoutCall # "pending"
    /\ loading' = TRUE
    /\ logoutCall' = "pending"
    /\ UNCHANGED <<route, history, screening, comparisonInput, runs, cookies, user, authCalls, reloading>>

\* the post resolves: authAPI.logout removes the cookies, the context clears
\* the user and loading, handleLogout navigates
LogoutSuccess ==
    /\ logoutCall = "pending"
    /\ cookies' = LogoutCookies(cookies)
    /\ user' = Null
    /\ loading' = FALSE
    /\ logoutCall' = "resolved"
    /\ route' = "/signin"
    /\ history' = history \cup {"/signin"}
    /\ UNCHANGED <<screening, comparisonInput, runs, authCalls, reloading>>

\* the post rejects: the interceptor has seen the error, authAPI.logout
\* removes the cookies in its finally block, the context clears loading in
\* its own, and the error passes setUser(null) and navigate('/signin') by
LogoutFailure(status) ==
    /\ logoutCall = "pending"
    /\ cookies' = LogoutCookies(InterceptorCookies(status, cookies))
    /\ reloading' = (reloading \/ status = 401)
    /\ loading' = FALSE
    /\ logoutCall' = "rejected"
    /\ UNCHANGED <<route, history, screening, comparisonInput, runs, user, authCalls>>

\* ProtectedRoute around a page, whose body is not among the sources: with
\* no user it may send the location to /signin, or leave the page shown
ProtectedRedirect ==
    /\ route \in Routes
    /\ ~isLoggedIn
    /\ ~loading
    /\ route' = "/signin"
    /\ UNCHANGED <<history, screening, comparisonInput, runs, auth>>

\* a signed-in session on the upload page, filled in
InitAuth ==
    /\ route = "/upload"
    /\ history \in {{"/upload"}, {"/dashboard", "/upload"}}
    /\ jobDescription \in JobDescriptions \ {<<>>, <<" ">>}
    /\ uploadedFiles \in {<<PdfFile>>, <<PdfFile, FakeDoc>>}
    /\ processedResumes = <<>>
    /\ rejectionEmails = <<>>
    /\ currentJobId = Null
    /\ comparisonInput = NoInput
    /\ processing = FALSE
    /\ runs = [i \in RunIds |-> IdleRun]
    /\ cookies = SessionCookies
    /\ user = SessionUser
    /\ loading = FALSE
    /\ logoutCall = "idle"
    /\ authCalls = NoCalls
    /\ reloading = FALSE

NextAuth ==
    \/ handleLogout
    \/ LogoutSuccess
    \/ \E status \in ErrorStatuses : LogoutFailure(status)
    \/ handleProcess
    \/ \E r \in Routes : HistoryNavigate(r)
    \/ LinkToUpload
    \/ LinkToDashboard
    \/ handleNewScreening
    \/ \E i \in DOMAIN runs : \E outs \in [1..Len(runs[i].files) -> AiOutputs] : ApiSuccess(i, outs)
    \/ \E i \in DOMAIN runs : \E outs \in [1..Len(runs[i].files) -> AiOutputs] : ApiBatchFailure(i, outs)
    \/ \E i \in DOMAIN runs : \E status \in ErrorStatuses : ApiTransportFailure(i, status)
    \/ \E i \in DOMAIN runs : ApiUnauthorized(i)
    \/ \E i \in DOMAIN runs : \E draws \in [1..Len(runs[i].files) -> MockDraws] : MockComplete(i, draws)
    \/ LoadSignin
    \/ ProtectedRedirect

SpecAuth == InitAuth /\ [][NextAuth]_vars

(***************************************************************************)
(* The same with what the timers guarantee: the call of a run settles (the *)
(* axios instance has a timeout of 30 s), the timer of the fallback fires, *)
(* and a document that was asked for loads.                                *)
(***************************************************************************)
CallSettles(i) ==
    \/ \E outs \in [1..Len(runs[i].files) -> AiOutputs] : ApiSuccess(i, outs)
    \/ \E outs \in [1..Len(runs[i].files) -> AiOutputs] : ApiBatchFailure(i, outs)
    \/ \E status \in ErrorStatuses : ApiTransportFailure(i, status)
    \/ ApiUnauthorized(i)

TimerFires(i) == \E draws \in [1..Len(runs[i].files) -> MockDraws] : MockComplete(i, draws)

SpecAuthFair ==
    /\ SpecAuth
    /\ \A i \in RunIds : WF_vars(CallSettles(i)) /\ WF_vars(TimerFires(i))
    /\ WF_vars(LoadSignin)

(***************************************************************************)
(* AuthProvider: session initialisation, login and register, on the public *)
(* pages /signin and /signup.                                              *)
(***************************************************************************)
\* what /auth/login, /auth/register answer on success (AuthResponse)
AuthResponses ==
    {[user |-> <<"user">>, token |-> <<"jwt">>, refreshToken |-> <<"refresh">>],
     [user |-> <<"user2">>, token |-> <<"jwt2">>, refreshToken |-> <<"refresh2">>]}

\* what /auth/me answers on success (User)
Users == {r.user : r \in AuthResponses}

\* Cookies.set('auth_token', token); Cookies.set('refresh_token', refreshToken)
SetTokens(c, response) ==
    [c EXCEPT !.auth_token = response.token, !.refresh_token = response.refreshToken]

\* the cookies a page can be loaded with: none, those of a session, and a
\* session whose auth_token (7 days) has expired before its refresh_token (30)
LoadedCookies ==
    {RemoveTokens(SessionCookies), SessionCookies,
     [SessionCookies EXCEPT !.auth_token = NoCookie]}

\* login of the context: setLoading(true), authAPI.login posts /auth/login
login ==
    /\ route = "/signin"
    /\ authCalls.sign = "idle"
    /\ loading' = TRUE
    /\ authCalls' = [authCalls EXCEPT !.sign = "login"]
    /\ UNCHANGED <<route, history, screening, comparisonInput, runs,
                   cookies, user, logoutCall, reloading>>

\* register of the context: setLoading(true), authAPI.register posts /auth/register
register ==
    /\ route = "/signup"
    /\ authCalls.sign = "idle"
    /\ loading' = TRUE
    /\ authCalls' = [authCalls EXCEPT !.sign = "register"]
    /\ UNCHANGED <<route, history, screening, comparisonInput, runs,
                   cookies, user, logoutCall, reloading>>

\* the post of login or register resolves: both cookies are set from the
\* response, the context takes its user and clears loading
SignResolved(response) ==
    /\ authCalls.sign # "idle"
    /\ cookies' = SetTokens(cookies, response)
    /\ user' = response.user
    /\ loading' = FALSE
    /\ authCalls' = [authCalls EXCEPT !.sign = "idle"]
    /\ UNCHANGED <<route, history, screening, comparisonInput, runs, logoutCall, reloading>>

\* the post of login or register rejects: the interceptor has seen the
\* error, the context clears loading and the error passes setUser by
SignRejected(status) ==
    /\ authCalls.sign # "idle"
    /\ cookies' = InterceptorCookies(status, cookies)
    /\ reloading' = (reloading \/ status = 401)
    /\ loading' = FALSE
    /\ authCalls' = [authCalls EXCEPT !.sign = "idle"]
    /\ UNCHANGED <<route, history, screening, comparisonInput, runs, user, logoutCall>>

\* getCurrentUser of initAuth resolves
InitAuthResolved(userData) ==
    /\ authCalls.init = "pending"
    /\ user' = userData
    /\ loading' = FALSE
    /\ authCalls' = [authCalls EXCEPT !.init = "done"]
    /\ UNCHANGED <<route, history, screening, comparisonInput, runs,
                   cookies, logoutCall, reloading>>

\* getCurrentUser of initAuth rejects: the catch block logs, then setLoading(false)
InitAuthRejected(status) ==
    /\ authCalls.init = "pending"
    /\ cookies' = InterceptorCookies(status, cookies)
    /\ reloading' = (reloading \/ status = 401)
    /\ loading' = FALSE
    /\ authCalls' = [authCalls EXCEPT !.init = "done"]
    /\ UNCHANGED <<route, history, screening, comparisonInput, runs, user, logoutCall>>

\* a public page loaded, AuthProvider mounted
InitSession ==
    /\ route \in {"/signin", "/signup"}
    /\ history = {route}
    /\ jobDescription = <<>>
    /\ uploadedFiles = <<>>
    /\ processedResumes = <<>>
    /\ rejectionEmails = <<>>
    /\ currentJobId = Null
    /\ comparisonInput = NoInput
    /\ processing = FALSE
    /\ runs = [i \in RunIds |-> IdleRun]
    /\ cookies \in LoadedCookies
    /\ user = Null
    /\ loading = isAuthenticated
    /\ logoutCall = "idle"
    /\ authCalls = MountedCalls(cookies)
    /\ reloading = FALSE

NextSession ==
    \/ login
    \/ register
    \/ \E response \in AuthResponses : SignResolved(response)
    \/ \E status \in ErrorStatuses : SignRejected(status)
    \/ \E userData \in Users : InitAuthResolved(userData)
    \/ \E status \in ErrorStatuses : InitAuthRejected(status)
    \/ LoadSignin

SpecSession == InitSession /\ [][NextSession]_vars

(***************************************************************************)
(* Properties.                                                             *)
(***************************************************************************)
Abs(n) == IF n < 0 THEN -n ELSE n

Stored(k) == processedResumes[k]

HasMockJob == currentJobId # Null /\ currentJobId[1] = "mock_job_"

HasApiJob == currentJobId # Null /\ currentJobId[1] = "job_"

\* run i ends in this step and has stored its results
Completes(i) == InFlight(i) /\ runs'[i].pc = "done"

\* C1: every stored candidate record has a score, and its status is
\* 'shortlisted' exactly when the score is at least the threshold (80), the
\* boundary included.
C1_ShortlistedIffAtThreshold ==
    \A k \in 1..Len(processedResumes) :
        /\ "score" \in DOMAIN Stored(k)
        /\ Stored(k).status \in {"shortlisted", "rejected"}
        /\ Stored(k).status = "shortlisted" <=> Stored(k).score >= Threshold

\* a fallback job holding a candidate exactly at the threshold and one just below
C1_Witness ==
    /\ HasMockJob
    /\ \E k \in 1..Len(processedResumes) :
          Stored(k).score = Threshold /\ Stored(k).status = "shortlisted"
    /\ \E k \in 1..Len(processedResumes) :
          Stored(k).score = Threshold - 1 /\ Stored(k).status = "rejected"

DraftsFor(id) == {e \in 1..Len(rejectionEmails) : rejectionEmails[e].candidateId = id}

\* C2: rejectionEmails holds exactly one draft per rejected candidate of
\* processedResumes, none for a shortlisted one, and none whose candidateId is
\* not in processedResumes.
C2_OneDraftPerRejected ==
    /\ \A k \in 1..Len(processedResumes) :
          Cardinality(DraftsFor(Stored(k).id)) = IF IsRejected(Stored(k)) THEN 1 ELSE 0
    /\ \A e \in 1..Len(rejectionEmails) :
          \E k \in 1..Len(processedResumes) : Stored(k).id = rejectionEmails[e].candidateId

\* results with a rejected and a shortlisted candidate and a single draft
C2_Witness ==
    /\ \E k \in 1..Len(processedResumes) : IsRejected(Stored(k))
    /\ \E k \in 1..Len(processedResumes) : ~IsRejected(Stored(k))
    /\ Len(rejectionEmails) = 1

\* C3: in the results view the number of processed resumes is the number
\* filtered as shortlisted plus the number filtered as rejected.
C3_CountsAddUp ==
    Len(processedResumes) = Len(shortlistedCandidates) + Len(rejectedCandidates)

\* the results page showing one shortlisted and one rejected candidate
C3_Witness ==
    /\ route = "/results"
    /\ Len(shortlistedCandidates) = 1
    /\ Len(rejectedCandidates) = 1

Reported(name) ==
    \E f \in 1..Len(reportedFailures) : reportedFailures[f].fileName = name

\* C4: a file that fails (dropped by the upload filter, or failed by the
\* backend in a partially successful run) is listed among the per-file
\* failures the caller receives.
C4_PartialFailuresReported ==
    [][/\ \A files \in Selections :
             handleFileUpload(files) =>
                 \A k \in 1..Len(files.items) :
                     ~Accepts(files.items[k]) => Reported(files.items[k].name)'
       /\ \A i \in DOMAIN runs :
             \A outs \in [1..Len(runs[i].files) -> AiOutputs] :
                 ApiSuccess(i, outs) =>
                     \A k \in 1..Len(runs[i].files) :
                         ~Analyze(runs[i].files[k], outs[k]).ok
                             => Reported(runs[i].files[k].name)'
      ]_vars

\* C5 as claimed: a run whose processing call failed ends without writing
\* currentJobId, processedResumes or rejectionEmails.
C5_FailedRunStoresNothing ==
    [][\A i \in DOMAIN runs :
          (runs[i].pc = "mockDelay" /\ runs'[i].pc = "done") => UNCHANGED results
      ]_vars

\* C5 as amended: a failed call (other than a 401) changes nothing by itself,
\* and the run then ends by storing a fallback job: a mock_job id and one
\* candidate record per file of the run, scored in 60..99, and /results.
C5_FailedRunStoresMockJob ==
    [][\A i \in DOMAIN runs :
          /\ (runs[i].pc = "calling" /\ runs'[i].pc = "mockDelay")
                => UNCHANGED <<route, history, screening>>
          /\ (runs[i].pc = "mockDelay" /\ runs'[i].pc = "done")
                => /\ currentJobId' = MockJobId(i)
                   /\ Len(processedResumes') = Len(runs[i].files)
                   /\ \A k \in 1..Len(processedResumes') :
                         /\ processedResumes'[k].fileName = runs[i].files[k].name
                         /\ processedResumes'[k].score \in 60..99
                   /\ route' = "/results"
                   /\ ~processing'
      ]_vars

\* a fallback job with a record for each of two files
C5_Witness ==
    /\ HasMockJob
    /\ Len(processedResumes) = 2
    /\ route = "/results"

\* C6: a run that ends after the user has left the processing page (or has
\* reset the process, which happens away from it) writes none of
\* currentJobId, processedResumes, rejectionEmails and does not navigate.
C6_AbortedRunStoresNothing ==
    [][\A i \in DOMAIN runs :
          (route # "/processing" /\ Completes(i)) => UNCHANGED <<results, route>>
      ]_vars

\* C7 as claimed: the failure of the processing call is surfaced only after
\* the call has been made three times (two retries).
C7_RetriedTwiceBeforeFailure ==
    \A i \in DOMAIN runs : runs[i].pc = "mockDelay" => runs[i].attempts = 3

\* C7 as amended: the call is never retried; every run issues it exactly
\* once, and one failure ends the API path.
C7_SingleAttempt ==
    \A i \in DOMAIN runs :
        /\ runs[i].attempts <= 1
        /\ InFlight(i) => runs[i].attempts = 1

\* a run whose only call has failed
C7_Witness ==
    \E i \in DOMAIN runs : runs[i].pc = "mockDelay" /\ runs[i].attempts = 1

\* the threshold the caller asked for: the comparison score typed, else 80
EffectiveThreshold == IF comparisonInput = NoInput THEN Threshold ELSE comparisonInput[1]

\* C8: a run that ends while the user is still on the processing page has
\* classified its candidates with the threshold the caller set on the upload
\* page (80 when none was set).
C8_ThresholdIsCallersChoice ==
    [][\A i \in DOMAIN runs :
          (route = "/processing" /\ Completes(i) /\ Len(runs[i].files) > 0
             /\ trim(runs[i].jobDescription) # <<>>)
              => \A k \in 1..Len(processedResumes') :
                    processedResumes'[k].status = "shortlisted"
                        <=> processedResumes'[k].score >= EffectiveThreshold
      ]_vars

\* C9: every stored candidate record has an integer score in 0..100.
C9_ScoreInRange ==
    \A k \in 1..Len(processedResumes) :
        /\ "score" \in DOMAIN Stored(k)
        /\ Stored(k).score \in 0..100

\* stored records reaching the highest fallback score and the lowest backend score
C9_Witness ==
    \/ HasMockJob /\ \E k \in 1..Len(processedResumes) : Stored(k).score = 99
    \/ HasApiJob /\ \E k \in 1..Len(processedResumes) : Stored(k).score = 0

\* C10 as claimed: the average shown differs from the arithmetic mean of the
\* stored candidates' scores by less than 1e-6.
C10_AverageIsExactMean ==
    Len(processedResumes) > 0 =>
        Abs(AvgScore * Len(processedResumes) - SumScores(processedResumes)) * 1000000
            < Len(processedResumes)

\* C10 as amended: the average shown is the arithmetic mean of the stored
\* candidates' scores rounded to the nearest integer, halves up.
C10_AverageIsRoundedMean ==
    Len(processedResumes) > 0 =>
        /\ 2 * AvgScore * Len(processedResumes) - Len(processedResumes)
              <= 2 * SumScores(processedResumes)
        /\ 2 * SumScores(processedResumes)
              < 2 * AvgScore * Len(processedResumes) + Len(processedResumes)

\* two stored candidates whose mean ends in .5
C10_Witness ==
    /\ route = "/results"
    /\ Len(processedResumes) = 2
    /\ SumScores(processedResumes) % 2 = 1

\* C11: in every state of the results view the average score shown is a
\* defined number in 0..100, also when processedResumes is empty.
C11_AverageDefinedInRange ==
    route = "/results" => (~AvgScoreIsNaN /\ AvgScore \in 0..100)

\* the lists of files a claim about the batch speaks of: the upload list and
\* the batch of every run whose call has been issued
Batches == {uploadedFiles} \cup {runs[i].files : i \in DOMAIN runs}

\* C12 as claimed: every file of uploadedFiles, and of a batch sent for
\* processing, is PDF, DOC or DOCX by content, and a .pdf name counts only with
\* the declared type application/pdf.
C12_OnlyResumeContent ==
    \A b \in Batches : \A k \in 1..Len(b) :
        /\ b[k].content \in {"pdf", "doc", "docx"}
        /\ Accepts(b[k])

\* C12 as amended: every such file has the declared type application/pdf or a
\* name ending in .doc or .docx (letter case ignored); what the bytes are is
\* not looked at.
C12_OnlyDeclaredResumes ==
    \A b \in Batches : \A k \in 1..Len(b) :
        \/ b[k].type = "application/pdf"
        \/ \E suffix \in {<<".", "d", "o", "c">>, <<".", "d", "o", "c", "x">>} :
               endsWith(toLowerCase(b[k].name), suffix)

\* a batch sent for processing that holds a text file named .DOC next to a PDF
C12_Witness ==
    \E i \in DOMAIN runs :
        /\ runs[i].pc = "calling"
        /\ \E k \in 1..Len(runs[i].files) : runs[i].files[k] = FakeDoc
        /\ \E k \in 1..Len(runs[i].files) : runs[i].files[k] = PdfFile

\* the results held were stored by run j
HeldBy(j) == currentJobId # Null /\ currentJobId[2] = j

\* C13: when two runs overlap, the results one of them has stored are not
\* overwritten by the other, and the job id, the candidates and the drafts
\* held always stem from one run.  Runs are numbered in the order they start,
\* so a run that ends while a later-started run's results are held has
\* overlapped with it.
C13_RunsDoNotOverwrite ==
    [][\A i \in DOMAIN runs : \A j \in DOMAIN runs :
          (i < j /\ HeldBy(j) /\ Completes(i))
              => /\ UNCHANGED results
                 /\ \A e \in 1..Len(rejectionEmails') :
                       \E k \in 1..Len(processedResumes') :
                           processedResumes'[k].id = rejectionEmails'[e].candidateId
      ]_vars

\* the fallback of run i ends in this step
FallbackEnds(i) == runs[i].pc = "mockDelay" /\ runs'[i].pc = "done"

RECURSIVE UpToSpace(_, _)
UpToSpace(s, n) ==
    IF s = <<>> THEN <<>>
    ELSE IF Head(s) = " "
         THEN IF n = 1 THEN <<>> ELSE <<" ">> \o UpToSpace(Tail(s), n - 1)
         ELSE <<Head(s)>> \o UpToSpace(Tail(s), n)

\* the number of words (maximal runs of non-space characters) of s
WordCount(s) ==
    Cardinality({k \in 1..Len(s) : s[k] # " " /\ (k = 1 \/ s[k - 1] = " ")})

\* C15: the subject of every draft is "Thank you for your application - ",
\* then a label, then " Position"; the label is the job description up to its
\* third space, so it holds no more than the first three words.
C15_SubjectFormat ==
    \A e \in 1..Len(rejectionEmails) :
        LET subject == rejectionEmails[e].subject
            label == SubSeq(subject, 2, Len(subject) - 1)
        IN /\ Len(subject) >= 2
           /\ subject[1] = "Thank you for your application - "
           /\ subject[Len(subject)] = " Position"
           /\ label = UpToSpace(jobDescription, 3)
           /\ WordCount(label) <= 3

\* a draft held for a job description of four words
C15_Witness ==
    /\ WordCount(jobDescription) = 4
    /\ Len(rejectionEmails) > 0
    /\ rejectionEmails[1].subject =
          <<"Thank you for your application - ", "a", " ", "b", " ", "c", " Position">>

\* a draft held for a job description that begins with three spaces
C15_WitnessBlankLabel ==
    /\ jobDescription = <<" ", " ", " ", "x">>
    /\ Len(rejectionEmails) > 0
    /\ rejectionEmails[1].subject =
          <<"Thank you for your application - ", " ", " ", " Position">>

\* C16: a run stores one candidate record per file that produced one.  The
\* fallback stores exactly one record per file of the run, in upload order,
\* each with its file's name, and the ids of one run's records are pairwise
\* distinct; a run answered by the backend stores no more records than files,
\* each named after a file of the run, with distinct ids.
C16_OneCandidatePerFile ==
    [][\A i \in DOMAIN runs :
          /\ FallbackEnds(i) =>
                /\ Len(processedResumes') = Len(runs[i].files)
                /\ \A k \in 1..Len(processedResumes') :
                      processedResumes'[k].fileName = runs[i].files[k].name
          /\ Completes(i) =>
                /\ Len(processedResumes') <= Len(runs[i].files)
                /\ \A k \in 1..Len(processedResumes') :
                      \E f \in 1..Len(runs[i].files) :
                          processedResumes'[k].fileName = runs[i].files[f].name
                /\ \A k \in 1..Len(processedResumes') : \A l \in 1..Len(processedResumes') :
                      processedResumes'[k].id = processedResumes'[l].id => k = l
      ]_vars

\* a fallback job over the files a.pdf and b.DOC, with their records in that order
C16_Witness ==
    /\ HasMockJob
    /\ Len(processedResumes) = 2
    /\ Stored(1).fileName = PdfFile.name
    /\ Stored(2).fileName = FakeDoc.name
    /\ Stored(1).id # Stored(2).id

\* C17: whenever the call of processResumes is in flight, the job description
\* it was issued with is not blank and its batch holds at least one file.
C17_RunHasInputs ==
    \A i \in DOMAIN runs :
        runs[i].pc = "calling" =>
            /\ trim(runs[i].jobDescription) # <<>>
            /\ Len(runs[i].files) > 0

NoTokens(c) == c.auth_token = NoCookie /\ c.refresh_token = NoCookie

\* C18: a response with status 401 removes the auth_token and refresh_token
\* cookies and sends the browser to /signin, and the caller still gets the
\* rejection (the run goes to its catch block, the logout is rejected); a
\* response of the processing call with any other status, or no response,
\* leaves both cookies as they are and starts no reload.
C18_UnauthorizedClearsTokens ==
    [][/\ \A i \in DOMAIN runs :
             ApiUnauthorized(i) =>
                 /\ NoTokens(cookies')
                 /\ reloading'
                 /\ runs'[i] = [runs[i] EXCEPT !.pc = "mockDelay"]
       /\ LogoutFailure(401) =>
             /\ NoTokens(cookies')
             /\ reloading'
             /\ logoutCall' = "rejected"
       /\ \A i \in DOMAIN runs : \A status \in ErrorStatuses :
             ApiTransportFailure(i, status) =>
                 /\ UNCHANGED <<cookies, reloading>>
                 /\ runs'[i] = [runs[i] EXCEPT !.pc = "mockDelay"]
       /\ \A i \in DOMAIN runs : \A outs \in [1..Len(runs[i].files) -> AiOutputs] :
             (ApiSuccess(i, outs) \/ ApiBatchFailure(i, outs)) => UNCHANGED <<cookies, reloading>>
       /\ LoadSignin => route' = "/signin"
      ]_vars

\* the processing call of a signed-in session was answered with 401: the
\* tokens are gone, the reload is under way and the run is in its catch path
C18_Witness ==
    /\ reloading
    /\ NoTokens(cookies)
    /\ logoutCall = "idle"
    /\ \E i \in DOMAIN runs : runs[i].pc = "mockDelay"

\* C19: when the logout call settles, resolved or rejected, both cookies are
\* removed; a failed call leaves the logout rejected, so neither setUser(null)
\* nor the navigation to /signin behind it takes place.
C19_LogoutRemovesTokens ==
    [][/\ (logoutCall = "pending" /\ logoutCall' \in {"resolved", "rejected"})
             => NoTokens(cookies')
       /\ LogoutSuccess => logoutCall' = "resolved"
       /\ \A status \in ErrorStatuses :
             LogoutFailure(status) =>
                 /\ logoutCall' = "rejected"
                 /\ UNCHANGED <<user, route>>
      ]_vars

\* a logout whose call failed with a status other than 401: tokens removed,
\* call rejected
C19_Witness ==
    /\ logoutCall = "rejected"
    /\ NoTokens(cookies)
    /\ ~reloading

\* C20: a user in the auth context implies the auth_token cookie; and when a
\* logout settles, resolved or rejected, user is null and the location is
\* /signin.
C20_UserImpliesToken ==
    [][/\ isLoggedIn' => isAuthenticated'
       /\ (logoutCall = "pending" /\ logoutCall' \in {"resolved", "rejected"})
             => (user' = Null /\ route' = "/signin")
      ]_vars

\* C21: a login or register call that fails leaves both cookies and the
\* user as they were; one that succeeds sets auth_token and refresh_token
\* from the response and user to the response's user.
C21_FailedSignInChangesNothing ==
    [][/\ \A status \in ErrorStatuses :
             SignRejected(status) => UNCHANGED <<cookies, user>>
       /\ \A response \in AuthResponses :
             SignResolved(response) =>
                 /\ cookies'.auth_token = response.token
                 /\ cookies'.refresh_token = response.refreshToken
                 /\ user' = response.user
      ]_vars

\* a call of the auth context is in flight
AuthCallPending ==
    authCalls.init = "pending" \/ authCalls.sign # "idle" \/ logoutCall = "pending"

\* C22: loading is true while session initialisation, a login, a register or
\* a logout call is in flight, and false again once the calls have settled.
C22_LoadingWhileCallPending == loading <=> AuthCallPending

\* run i leaves flight in this step without having stored results
Discarded(i) == InFlight(i) /\ ~InFlight(i)' /\ ~Completes(i)

\* C23 as claimed: a run that is in flight stays in flight or ends by storing
\* its results, with the location /results and processing false.
C23_RunEndsWithResults ==
    [][\A i \in DOMAIN runs :
          InFlight(i) =>
              \/ InFlight(i)'
              \/ (Completes(i) /\ currentJobId' # Null /\ route' = "/results" /\ ~processing')
      ]_vars

\* C23 as amended: a run starts with processing true; its call settles and the
\* run ends; it ends by storing its results, going to /results and setting
\* processing false, or, only while the reload that a 401 started is under way,
\* by being discarded with the page, which leaves processing false as well;
\* and processing is false whenever no run is in flight.
C23_RunEndsOrIsDiscarded ==
    /\ [][\A i \in DOMAIN runs :
             /\ (runs[i].pc = "idle" /\ runs'[i].pc # "idle")
                   => (runs'[i].pc = "calling" /\ processing')
             /\ Completes(i)
                   => (currentJobId' # Null /\ route' = "/results" /\ ~processing')
             /\ Discarded(i)
                   => (reloading /\ route' = "/signin" /\ ~processing')
         ]_vars
    /\ []((\A i \in DOMAIN runs : ~InFlight(i)) => ~processing)
    /\ \A i \in RunIds : (runs[i].pc = "calling") ~> (runs[i].pc \in {"done", "idle"})

\* a run that has ended through the fallback: results held on /results,
\* processing false
C23_Witness ==
    /\ \A i \in DOMAIN runs : runs[i].pc = "done"
    /\ HasMockJob
    /\ route = "/results"
    /\ ~processing

\* a run discarded by the page load that followed a 401
C23_WitnessDiscarded ==
    /\ route = "/signin"
    /\ ~reloading
    /\ NoTokens(cookies)
    /\ user = Null
    /\ logoutCall = "idle"
    /\ currentJobId = Null

\* some run ends in this step and stores its results
SomeRunCompletes == \E i \in DOMAIN runs : Completes(i)

NoResults == currentJobId = Null /\ processedResumes = <<>> /\ rejectionEmails = <<>>

\* C24: currentJobId, processedResumes and rejectionEmails change only
\* together.  A step in which a run ends writes all three from one result: a
\* job id, and drafts that belong to the candidates written with them.  Any
\* other step leaves all three alone or clears all three.  So a null
\* currentJobId goes with empty lists, and the job id is set exactly from the
\* end of a run until the next reset.
C24_ResultsChangeTogether ==
    [][/\ SomeRunCompletes =>
             /\ currentJobId' # Null
             /\ \A e \in 1..Len(rejectionEmails') :
                   \E k \in 1..Len(processedResumes') :
                       /\ processedResumes'[k].id = rejectionEmails'[e].candidateId
                       /\ processedResumes'[k].status = "rejected"
             /\ Len(rejectionEmails') = Len(rejectedOf(processedResumes'))
       /\ ~SomeRunCompletes => (UNCHANGED results \/ NoResults')
       /\ currentJobId' = Null => NoResults'
      ]_vars

\* the results of a run were held and have been cleared by New Screening
C24_Witness ==
    /\ NoResults
    /\ route = "/dashboard"
    /\ \E i \in DOMAIN runs : runs[i].pc = "done"

\* the screening state of a provider that has just mounted
InitialScreening ==
    /\ jobDescription = <<>>
    /\ uploadedFiles = <<>>
    /\ processedResumes = <<>>
    /\ rejectionEmails = <<>>
    /\ processing = FALSE
    /\ currentJobId = Null

\* C25: resetProcess (behind New Screening) leaves the screening state at
\* its initial value whatever it was before, so a second reset changes
\* nothing, and it leaves the user and the cookies as they are.
C25_ResetRestoresInitial ==
    [][handleNewScreening =>
          /\ InitialScreening'
          /\ UNCHANGED <<user, cookies>>
      ]_vars

\* New Screening pressed on results held, in a session whose logout had
\* failed: screening state initial, user still set, cookies still removed
C25_Witness ==
    /\ InitialScreening
    /\ route = "/dashboard"
    /\ \E i \in DOMAIN runs : runs[i].pc = "done"
    /\ user = SessionUser
    /\ NoTokens(cookies)
    /\ logoutCall = "rejected"

\* the files of a selection that pass the type and suffix test, taken one
\* at a time from the front
RECURSIVE AcceptedOf(_)
AcceptedOf(items) ==
    IF items = <<>>
    THEN <<>>
    ELSE IF Accepts(Head(items))
         THEN <<Head(items)>> \o AcceptedOf(Tail(items))
         ELSE AcceptedOf(Tail(items))

\* a step of UploadPage that leaves everything but the file list alone
OnlyFilesChange ==
    /\ route = "/upload"
    /\ UNCHANGED <<route, history, jobDescription, processedResumes, rejectionEmails, processing, currentJobId, comparisonInput, runs>>
    /\ UNCHANGED auth

====
